---------------------------- MODULE Spec2Model ----------------------------
(***************************************************************************)
(* State-machine model of matchs_tv.py: the scraper fetches five club      *)
(* pages (with urllib3's Retry on the session), extracts match records     *)
(* from the schedule table of each page, keeps the matches that are not    *)
(* more than one week away, sorts them by date and sends one SMS.          *)
(*                                                                         *)
(* Time is counted in hours.  A datetime is [y, m, d, h]; an HTML text     *)
(* node is [ws, body] (ws: it carries surrounding white space); a <tr> is  *)
(* [cells, date, fixture, comp]: its child elements and the results of the *)
(* three xpath queries parse_details runs on it.                           *)
(*                                                                         *)
(* The filter and the sort of one run read the clock within the same hour: *)
(* `now` is one value per run.  Of the libraries only what the script      *)
(* configures is modelled: Retry(total, status_forcelist) on the session,  *)
(* PREFER_DATES_FROM = future for dateparser, and requests.get either      *)
(* returning a response or raising.                                        *)
(***************************************************************************)
EXTENDS Integers, Sequences, FiniteSets, TLC

VARIABLES
    noSms,          \* args["--no-sms"]
    catchExc,       \* args["--catch-exceptions"]
    now,            \* the clock read by datetime.now() / dateparser
    sameDayRolls,   \* dateparser's answer for a year-less date that is today
    pc,             \* position of the script
    club,           \* index of the club page being processed (1..NumClubs)
    retries,        \* retries urllib3 already spent on the current GET
    status,         \* class of the last HTTP response of the current GET
    page,           \* tables found by //div[@class='container']//table
    table,          \* rows (.//tr) of the chosen table
    pos,            \* rows already consumed from elems_iter
    res,            \* parse_details' local result list
    matches,        \* scrap_matches' aggregate list
    filtered,       \* filtered_matches
    sms,            \* every call of send_sms so far: [kind, msg, outcome]
    exc,            \* the exception in flight, "none" when there is none
    exit            \* "running", "ok" (exit code 0) or "crashed" (traceback)

vars == <<noSms, catchExc, now, sameDayRolls, pc, club, retries, status, page,
          table, pos, res, matches, filtered, sms, exc, exit>>

-----------------------------------------------------------------------------
(* Program constants *)

NumClubs == 5        \* the five parse_details calls of scrap_matches
Total == 15          \* Retry(total=15, ...)
WeekDays == 7        \* datetime.timedelta(days=7)

(* Bounds of the explored inputs *)

MaxTables == 3       \* tables per page
MaxRows == 4         \* rows of the chosen table
MaxMatches == 3      \* length of the list handed to the filter

-----------------------------------------------------------------------------
(* Calendar: datetime arithmetic as Python's datetime does it *)

IsLeap(y) == (y % 4 = 0 /\ y % 100 # 0) \/ y % 400 = 0

DaysInMonth(y, m) ==
    IF m = 2 THEN (IF IsLeap(y) THEN 29 ELSE 28)
    ELSE IF m \in {4, 6, 9, 11} THEN 30 ELSE 31

RECURSIVE DaysBeforeMonth(_, _)
DaysBeforeMonth(y, m) ==
    IF m <= 1 THEN 0 ELSE DaysBeforeMonth(y, m - 1) + DaysInMonth(y, m - 1)

RECURSIVE DaysBeforeYear(_)
DaysBeforeYear(y) ==
    IF y <= 2024 THEN 0
    ELSE DaysBeforeYear(y - 1) + (IF IsLeap(y - 1) THEN 366 ELSE 365)

\* hours since 2024-01-01 00:00
Hours(dt) ==
    (DaysBeforeYear(dt.y) + DaysBeforeMonth(dt.y, dt.m) + dt.d - 1) * 24 + dt.h

\* dt - datetime.datetime.now(), in hours
Diff(dt, t) == Hours(dt) - Hours(t)

-----------------------------------------------------------------------------
(* HTML texts, rows, tables *)

Txt(b) == [ws |-> 1, body |-> b]

\* e.text_content().strip(): the text without its surrounding white space
elem_content(e) == e.body

\* "mercredi 18 juin" / "mercredi 18 juin 2025" (year 0: no year in the text)
DateText(wd, d, mon, y) == [k |-> "date", wd |-> wd, day |-> d, month |-> mon, year |-> y]
PlainText(s) == [k |-> "text", s |-> s]

RowKinds == {"date", "details", "empty", "nohour", "noteams", "nocomp"}

\* The <tr> number r of table t on the page of club c.  A date row holds one
\* cell with the date heading; a details row holds td.date (the hour),
\* td.fixture/h4 (the teams, here the row's place <<c, t, r>>) and
\* div.competitions.  The other kinds lack one expected element, or all.
Row(kind, c, t, r, d) ==
    LET hour == Txt(PlainText(<<21, 0>>))
        teams == Txt(PlainText(<<c, t, r>>))
        comp == Txt(PlainText(<<c>>))
    IN  CASE kind = "date" ->
               [cells |-> <<Txt(d)>>, date |-> <<>>, fixture |-> <<>>, comp |-> <<>>]
          [] kind = "details" ->
               [cells |-> <<hour, teams>>, date |-> <<hour>>,
                fixture |-> <<teams>>, comp |-> <<comp>>]
          [] kind = "nohour" ->
               [cells |-> <<teams>>, date |-> <<>>,
                fixture |-> <<teams>>, comp |-> <<comp>>]
          [] kind = "noteams" ->
               [cells |-> <<hour>>, date |-> <<hour>>,
                fixture |-> <<>>, comp |-> <<comp>>]
          [] kind = "nocomp" ->
               [cells |-> <<hour, teams>>, date |-> <<hour>>,
                fixture |-> <<teams>>, comp |-> <<>>]
          [] OTHER ->
               [cells |-> <<>>, date |-> <<>>, fixture |-> <<>>, comp |-> <<>>]

Table(kinds, c, t, d) == [r \in 1..Len(kinds) |-> Row(kinds[r], c, t, r, d)]

\* A page with T tables: the last one has the rows `kinds`, the ones before
\* it (the site's "today or past" table) hold one well-formed pair.
Page(T, kinds, c, d) ==
    [t \in 1..T |-> IF t = T THEN Table(kinds, c, t, d)
                    ELSE Table(<<"date", "details">>, c, t, d)]

-----------------------------------------------------------------------------
(* parse_details, lines 58-89 *)

\* the match dict built from one (date, details) pair of rows
MatchOf(daterow, details, year) ==
    LET dte == elem_content(daterow.cells[1])
        hour == elem_content(details.date[1])
        teams == elem_content(details.fixture[1])
    IN  [date |-> dte,
         hour |-> hour,
         teams |-> teams,
         competition |-> elem_content(details.comp[1]),
         id |-> <<dte, year, hour, teams>>]

\* every [0] of lines 80-83 finds an element
PairOk(daterow, details) ==
    /\ Len(daterow.cells) > 0
    /\ Len(details.date) > 0
    /\ Len(details.fixture) > 0
    /\ Len(details.comp) > 0

\* ChosenTable with the first of two tables taken
ChosenTableFirst(T) ==
    IF T = 0 THEN 0
    ELSE IF T = 1 THEN 1
    ELSE IF T = 2 THEN 1
    ELSE -1

\* index (1-based) of the table parse_details picks: 0 for "return []",
\* -1 for "raise"
ChosenTable(T) ==
    IF T = 0 THEN 0
    ELSE IF T = 1 THEN 1
    ELSE IF T = 2 THEN 2
    ELSE -1

-----------------------------------------------------------------------------
(* parse_date_fr, lines 92-102 *)

MonthNames == <<"janvier", "fevrier", "mars", "avril", "mai", "juin", "juillet",
                "aout", "septembre", "octobre", "novembre", "decembre">>

MonthNumber(name) ==
    IF \E i \in 1..12 : MonthNames[i] = name
    THEN CHOOSE i \in 1..12 : MonthNames[i] = name
    ELSE 0

\* dateparser.parse(..., PREFER_DATES_FROM: future, languages: fr): [ok, dt];
\* ok is FALSE when dateparser returns None ("Unparsed date" is raised).
\* A text with a year is that date.  Without a year the date is taken in the
\* current year when it is still to come and in the next year when it has
\* passed; for today's own date the source does not say which (rolls).
\* 29 fevrier is not among the inputs.
parse_date_fr(b, t, rolls) ==
    LET m == IF b.k = "date" THEN MonthNumber(b.month) ELSE 0
        y == IF b.k = "date" /\ b.year # 0 THEN b.year ELSE t.y
        cand == [y |-> y, m |-> m, d |-> b.day, h |-> 0]
        today == cand.m = t.m /\ cand.d = t.d
    IN  IF b.k # "date" \/ m = 0 THEN [ok |-> FALSE, dt |-> t]
        ELSE IF b.day < 1 \/ b.day > DaysInMonth(y, m) THEN [ok |-> FALSE, dt |-> t]
        ELSE IF b.year # 0 THEN [ok |-> TRUE, dt |-> cand]
        ELSE IF Hours(t) < Hours(cand) THEN [ok |-> TRUE, dt |-> cand]
        ELSE IF today /\ ~rolls THEN [ok |-> TRUE, dt |-> cand]
        ELSE [ok |-> TRUE, dt |-> [cand EXCEPT !.y = y + 1]]

-----------------------------------------------------------------------------
(* is_in_more_than_one_week, lines 105-118 *)

\* is_in_more_than_one_week with >= for >
is_in_one_week_or_more(dt, t) == Diff(dt, t) >= WeekDays * 24

is_in_more_than_one_week(dt, t) == Diff(dt, t) > WeekDays * 24

-----------------------------------------------------------------------------
(* scrap_matches: the filter (lines 145-147) and the sort (line 150) *)

AllParse(ms, t, rolls) ==
    \A i \in 1..Len(ms) : parse_date_fr(ms[i].date, t, rolls).ok

Keep(m, t, rolls) ==
    ~is_in_more_than_one_week(parse_date_fr(m.date, t, rolls).dt, t)

\* [match for match in matches if not is_in_more_than_one_week(...)]
RECURSIVE Filter(_, _, _)
Filter(ms, t, rolls) ==
    IF ms = <<>> THEN <<>>
    ELSE (IF Keep(Head(ms), t, rolls) THEN <<Head(ms)>> ELSE <<>>)
         \o Filter(Tail(ms), t, rolls)

SortKey(m, t, rolls) == Hours(parse_date_fr(m.date, t, rolls).dt)

\* Insert that puts m before the elements of equal key
RECURSIVE InsertBeforeEqual(_, _, _, _)
InsertBeforeEqual(m, s, t, rolls) ==
    IF s = <<>> THEN <<m>>
    ELSE IF SortKey(m, t, rolls) <= SortKey(Head(s), t, rolls) THEN <<m>> \o s
    ELSE <<Head(s)>> \o InsertBeforeEqual(m, Tail(s), t, rolls)

\* insert m after every element whose key is not greater (list.sort is stable)
RECURSIVE Insert(_, _, _, _)
Insert(m, s, t, rolls) ==
    IF s = <<>> THEN <<m>>
    ELSE IF SortKey(m, t, rolls) < SortKey(Head(s), t, rolls) THEN <<m>> \o s
    ELSE <<Head(s)>> \o Insert(m, Tail(s), t, rolls)

\* filtered_matches.sort(key=lambda m: parse_date_fr(m["date"]))
RECURSIVE SortByDate(_, _, _)
SortByDate(ms, t, rolls) ==
    IF ms = <<>> THEN <<>>
    ELSE Insert(ms[Len(ms)], SortByDate(SubSeq(ms, 1, Len(ms) - 1), t, rolls), t, rolls)

\* the line printed and sent for one match (lines 152-157)
Line(m) == <<m.date, m.hour, m.teams, m.competition>>

\* "\n".join([...]) of the lines of the matches
matches_str(ms) == [i \in 1..Len(ms) |-> Line(ms[i])]

\* requests.utils.quote(f"<prefix>{text}"): the percent-encoded message
Quote(prefix, text) == [quoted |-> TRUE, prefix |-> prefix, text |-> text]

-----------------------------------------------------------------------------
(* Inputs *)

Dec(d) == DateText("lundi", d, "decembre", 0)

\* the pages the server may answer for club c in a whole run
RunPages(c) ==
    { Page(0, <<>>, c, Dec(8)),
      Page(1, <<"date", "details">>, c, Dec(8)),
      Page(2, <<"date", "details">>, c,
           IF c % 2 = 0 THEN Dec(2) ELSE DateText("jeudi", 18, "juin", 0)),
      Page(3, <<"date", "details">>, c, Dec(8)),
      Page(1, <<"date", "nohour">>, c, Dec(8)),
      Page(1, <<"date", "details">>, c, DateText("lundi", 8, "dec", 0)) }

RunNows == { [y |-> 2025, m |-> 12, d |-> 1, h |-> 10] }

\* the fields one parse_details call works on, before the call
FreshPage ==
    /\ retries' = 0
    /\ status' = "none"
    /\ page' = <<>>
    /\ table' = <<>>
    /\ pos' = 0
    /\ res' = <<>>

Init ==
    /\ noSms \in BOOLEAN
    /\ catchExc \in BOOLEAN
    /\ now \in RunNows
    /\ sameDayRolls \in BOOLEAN
    /\ pc = "fetch"
    /\ club = 1
    /\ retries = 0
    /\ status = "none"
    /\ page = <<>>
    /\ table = <<>>
    /\ pos = 0
    /\ res = <<>>
    /\ matches = <<>>
    /\ filtered = <<>>
    /\ sms = <<>>
    /\ exc = "none"
    /\ exit = "running"

-----------------------------------------------------------------------------
(* REQUESTS_SESSION.get(url), lines 56 and 179-186 *)

\* the server answers with a status outside status_forcelist ("final"): the
\* GET returns, its Retry object is dropped, and the body is parsed whatever
\* the status (no raise_for_status)
FetchPage ==
    /\ pc = "fetch"
    /\ \E pg \in RunPages(club) : page' = pg
    /\ status' = "final"
    /\ retries' = 0
    /\ pc' = "tables"
    /\ UNCHANGED <<noSms, catchExc, now, sameDayRolls, club, table, pos,
                   res, matches, filtered, sms, exc, exit>>

\* FetchRetry that allows one retry more than Total
FetchRetryOnceMore ==
    /\ pc = "fetch"
    /\ retries < Total + 1
    /\ status' = "5xx"
    /\ retries' = retries + 1
    /\ UNCHANGED <<noSms, catchExc, now, sameDayRolls, pc, club, page, table, pos,
                   res, matches, filtered, sms, exc, exit>>

\* the server answers 500..504 and the Retry object has retries left: the
\* adapter sleeps and sends the GET again
FetchRetry ==
    /\ pc = "fetch"
    /\ retries < Total
    /\ status' = "5xx"
    /\ retries' = retries + 1
    /\ UNCHANGED <<noSms, catchExc, now, sameDayRolls, pc, club, page, table, pos,
                   res, matches, filtered, sms, exc, exit>>

\* the server answers 500..504 and no retry is left: the GET raises
FetchExhausted ==
    /\ pc = "fetch"
    /\ retries >= Total
    /\ status' = "5xx"
    /\ exc' = "RetryError"
    /\ pc' = "handler"
    /\ UNCHANGED <<noSms, catchExc, now, sameDayRolls, club, retries, page, table,
                   pos, res, matches, filtered, sms, exit>>

-----------------------------------------------------------------------------
(* parse_details, lines 58-89 *)

\* `return r` of parse_details and the `matches +=` of its caller, then the
\* next club's call, or the filter after the last one
Return(r) ==
    /\ matches' = matches \o r
    /\ IF club < NumClubs
       THEN /\ club' = club + 1
            /\ pc' = "fetch"
            /\ FreshPage
       ELSE /\ pc' = "filter"
            /\ UNCHANGED <<club, retries, status, page, table, pos, res>>

NoTable ==
    /\ pc = "tables"
    /\ ChosenTable(Len(page)) = 0
    /\ Return(<<>>)
    /\ UNCHANGED <<noSms, catchExc, now, sameDayRolls, filtered, sms, exc, exit>>

SelectTable ==
    /\ pc = "tables"
    /\ ChosenTable(Len(page)) > 0
    /\ table' = page[ChosenTable(Len(page))]
    /\ pos' = 0
    /\ res' = <<>>
    /\ pc' = "rows"
    /\ UNCHANGED <<noSms, catchExc, now, sameDayRolls, club, retries, status, page,
                   matches, filtered, sms, exc, exit>>

TooManyTables ==
    /\ pc = "tables"
    /\ ChosenTable(Len(page)) < 0
    /\ exc' = "TableCount"
    /\ pc' = "handler"
    /\ UNCHANGED <<noSms, catchExc, now, sameDayRolls, club, retries, status, page,
                   table, pos, res, matches, filtered, sms, exit>>

\* rows the iterator has left
Remaining == Len(table) - pos

\* ParsePair that takes one fresh row per turn instead of two
ParsePairSlides ==
    /\ pc = "rows"
    /\ Len(table) - pos >= 2
    /\ PairOk(table[pos + 1], table[pos + 2])
    /\ res' = Append(res, MatchOf(table[pos + 1], table[pos + 2], now.y))
    /\ pos' = pos + 1
    /\ UNCHANGED <<noSms, catchExc, now, sameDayRolls, pc, club, retries, status,
                   page, table, matches, filtered, sms, exc, exit>>

\* one turn of the while loop that appends a match
ParsePair ==
    /\ pc = "rows"
    /\ Remaining >= 2
    /\ PairOk(table[pos + 1], table[pos + 2])
    /\ res' = Append(res, MatchOf(table[pos + 1], table[pos + 2], now.y))
    /\ pos' = pos + 2
    /\ UNCHANGED <<noSms, catchExc, now, sameDayRolls, pc, club, retries, status,
                   page, table, matches, filtered, sms, exc, exit>>

\* ParsePairFails that skips the bad pair and goes on
ParsePairSkips ==
    /\ pc = "rows"
    /\ Remaining >= 2
    /\ ~PairOk(table[pos + 1], table[pos + 2])
    /\ pos' = pos + 2
    /\ UNCHANGED <<noSms, catchExc, now, sameDayRolls, pc, club, retries, status,
                   page, table, res, matches, filtered, sms, exc, exit>>

\* one turn of the while loop in which a [0] finds no element: IndexError
ParsePairFails ==
    /\ pc = "rows"
    /\ Remaining >= 2
    /\ ~PairOk(table[pos + 1], table[pos + 2])
    /\ pos' = pos + 2
    /\ exc' = "IndexError"
    /\ pc' = "handler"
    /\ UNCHANGED <<noSms, catchExc, now, sameDayRolls, club, retries, status, page,
                   table, res, matches, filtered, sms, exit>>

\* StopIteration: no row, or one unpaired row, is left
ParseEnd ==
    /\ pc = "rows"
    /\ Remaining < 2
    /\ Return(res)
    /\ UNCHANGED <<noSms, catchExc, now, sameDayRolls, filtered, sms, exc, exit>>

-----------------------------------------------------------------------------
(* scrap_matches after the five pages, lines 141-162 *)

\* the list comprehension of lines 145-147 when every date parses
FilterStep ==
    /\ pc = "filter"
    /\ AllParse(matches, now, sameDayRolls)
    /\ filtered' = Filter(matches, now, sameDayRolls)
    /\ pc' = "sort"
    /\ UNCHANGED <<noSms, catchExc, now, sameDayRolls, club, retries, status, page,
                   table, pos, res, matches, sms, exc, exit>>

\* parse_date_fr raises Exception("Unparsed date") inside the comprehension
FilterRaises ==
    /\ pc = "filter"
    /\ ~AllParse(matches, now, sameDayRolls)
    /\ exc' = "UnparsedDate"
    /\ pc' = "handler"
    /\ UNCHANGED <<noSms, catchExc, now, sameDayRolls, club, retries, status, page,
                   table, pos, res, matches, filtered, sms, exit>>

\* lines 148-160: sort, build matches_str, print it, and call send_sms when
\* let_send_sms (= not --no-sms)
Upcoming ==
    /\ pc = "sort"
    /\ filtered # <<>>
    /\ filtered' = SortByDate(filtered, now, sameDayRolls)
    /\ IF noSms
       THEN pc' = "exit" /\ exit' = "ok"
       ELSE pc' = "send" /\ exit' = exit
    /\ UNCHANGED <<noSms, catchExc, now, sameDayRolls, club, retries, status, page,
                   table, pos, res, matches, sms, exc>>

\* NoUpcoming that sends the (empty) summary all the same
NoUpcomingSends ==
    /\ pc = "sort"
    /\ filtered = <<>>
    /\ IF noSms
       THEN pc' = "exit" /\ exit' = "ok"
       ELSE pc' = "send" /\ exit' = exit
    /\ UNCHANGED <<noSms, catchExc, now, sameDayRolls, club, retries, status, page,
                   table, pos, res, matches, filtered, sms, exc>>

\* lines 161-162: "No upcoming matches within one week."
NoUpcoming ==
    /\ pc = "sort"
    /\ filtered = <<>>
    /\ pc' = "exit"
    /\ exit' = "ok"
    /\ UNCHANGED <<noSms, catchExc, now, sameDayRolls, club, retries, status, page,
                   table, pos, res, matches, filtered, sms, exc>>

-----------------------------------------------------------------------------
(* send_sms, lines 121-130 *)

\* the argument of the send_sms call the script is at: the summary from
\* scrap_matches (line 160), the error report from the handler (line 198)
Message ==
    IF exc = "none"
    THEN [kind |-> "summary", text |-> Quote("Prochains matchs:", matches_str(filtered))]
    ELSE [kind |-> "error", text |-> Quote("Error in matchs.tv script:", <<exc>>)]

\* requests.get returns a response: 200 prints success, any other status
\* prints the failure; send_sms returns and the script ends
SmsAnswered ==
    /\ pc = "send"
    /\ \E st \in {"200", "non200"} :
         sms' = Append(sms, [kind |-> Message.kind, msg |-> Message.text, outcome |-> st])
    /\ pc' = "exit"
    /\ exit' = "ok"
    /\ UNCHANGED <<noSms, catchExc, now, sameDayRolls, club, retries, status, page,
                   table, pos, res, matches, filtered, exc>>

\* requests.get raises (the request fails): nothing in send_sms catches it.
\* Raised under scrap_matches it reaches the handler of line 194; raised in
\* that handler it ends the script with a traceback.
SmsRaises ==
    /\ pc = "send"
    /\ sms' = Append(sms, [kind |-> Message.kind, msg |-> Message.text,
                           outcome |-> "raises"])
    /\ IF exc = "none"
       THEN exc' = "SmsRequest" /\ pc' = "handler" /\ exit' = exit
       ELSE exc' = exc /\ pc' = "exit" /\ exit' = "crashed"
    /\ UNCHANGED <<noSms, catchExc, now, sameDayRolls, club, retries, status, page,
                   table, pos, res, matches, filtered>>

-----------------------------------------------------------------------------
(* __main__, lines 192-200 *)

\* --catch-exceptions: print the exception, send it by SMS unless --no-sms
HandlerReports ==
    /\ pc = "handler"
    /\ catchExc
    /\ IF noSms
       THEN pc' = "exit" /\ exit' = "ok"
       ELSE pc' = "send" /\ exit' = exit
    /\ UNCHANGED <<noSms, catchExc, now, sameDayRolls, club, retries, status, page,
                   table, pos, res, matches, filtered, sms, exc>>

\* raise e
HandlerReraises ==
    /\ pc = "handler"
    /\ ~catchExc
    /\ pc' = "exit"
    /\ exit' = "crashed"
    /\ UNCHANGED <<noSms, catchExc, now, sameDayRolls, club, retries, status, page,
                   table, pos, res, matches, filtered, sms, exc>>

-----------------------------------------------------------------------------
(* The whole run *)

Next ==
    \/ FetchPage
    \/ FetchRetry
    \/ FetchExhausted
    \/ NoTable
    \/ SelectTable
    \/ TooManyTables
    \/ ParsePair
    \/ ParsePairFails
    \/ ParseEnd
    \/ FilterStep
    \/ FilterRaises
    \/ Upcoming
    \/ NoUpcoming
    \/ SmsAnswered
    \/ SmsRaises
    \/ HandlerReports
    \/ HandlerReraises

Spec == Init /\ [][Next]_vars

-----------------------------------------------------------------------------
(* parse_details alone, on every page shape within the bounds: the call for *)
(* the last club, the earlier pages having had no table                     *)

SeqsUpTo(S, n) == UNION { [1..k -> S] : k \in 0..n }

InitParse ==
    /\ noSms = FALSE
    /\ catchExc = FALSE
    /\ now \in RunNows
    /\ sameDayRolls = TRUE
    /\ pc = "tables"
    /\ club = NumClubs
    /\ retries = 0
    /\ status = "final"
    /\ \E T \in 0..MaxTables : \E kinds \in SeqsUpTo(RowKinds, MaxRows) :
         page = Page(T, kinds, NumClubs, Dec(8))
    /\ table = <<>>
    /\ pos = 0
    /\ res = <<>>
    /\ matches = <<>>
    /\ filtered = <<>>
    /\ sms = <<>>
    /\ exc = "none"
    /\ exit = "running"

NextParse ==
    \/ NoTable
    \/ SelectTable
    \/ TooManyTables
    \/ ParsePair
    \/ ParsePairFails
    \/ ParseEnd

SpecParse == InitParse /\ [][NextParse]_vars

-----------------------------------------------------------------------------
(* The filter and the sort alone, on every list of matches within the bounds *)

FilterNows ==
    { [y |-> 2025, m |-> 12, d |-> 1, h |-> 0],
      [y |-> 2025, m |-> 12, d |-> 1, h |-> 23],
      [y |-> 2025, m |-> 12, d |-> 28, h |-> 10] }

FilterDates ==
    { Dec(1), Dec(8), Dec(9),
      DateText("jeudi", 18, "juin", 0),
      DateText("vendredi", 2, "janvier", 0),
      DateText("mercredi", 18, "juin", 2025),
      DateText("lundi", 8, "dec", 0) }

\* the i-th match of the aggregate list, as parse_details builds it
Match(i, d, year) == MatchOf(Row("date", i, 1, 1, d), Row("details", i, 1, 2, d), year)

InitFilter ==
    /\ noSms \in BOOLEAN
    /\ catchExc = FALSE
    /\ now \in FilterNows
    /\ sameDayRolls \in BOOLEAN
    /\ pc = "filter"
    /\ club = NumClubs
    /\ retries = 0
    /\ status = "final"
    /\ page = <<>>
    /\ table = <<>>
    /\ pos = 0
    /\ res = <<>>
    /\ \E ds \in SeqsUpTo(FilterDates, MaxMatches) :
         matches = [i \in 1..Len(ds) |-> Match(i, ds[i], now.y)]
    /\ filtered = <<>>
    /\ sms = <<>>
    /\ exc = "none"
    /\ exit = "running"

NextFilter ==
    \/ FilterStep
    \/ FilterRaises
    \/ Upcoming
    \/ NoUpcoming

SpecFilter == InitFilter /\ [][NextFilter]_vars

-----------------------------------------------------------------------------
(* Properties of parse_details (specification SpecParse) *)

\* parse_details is over for the page (returned or raised)
ParseOver == pc \notin {"fetch", "tables", "rows"}

\* place <<club, table, row>> of the details row a record was built from
Place(m) == m.teams.s

\* the records parse_details holds or has returned for the page
PageRecords == {res[i] : i \in 1..Len(res)} \cup {matches[i] : i \in 1..Len(matches)}

\* C1: parse_details chooses the table by the number T of tables in the
\* container: T = 0 returns the empty list without error, T = 1 works on that
\* table, T = 2 works on the second table and takes no record from the first,
\* T >= 3 raises and returns no record.
C1_TableChoice ==
    LET T == Len(page)
    IN  pc # "tables" =>
          /\ T = 0 => pc = "filter" /\ exc = "none" /\ matches = <<>>
          /\ T = 1 => table = page[1] /\ exc # "TableCount"
                      /\ \A m \in PageRecords : Place(m)[2] = 1
          /\ T = 2 => table = page[2] /\ exc # "TableCount"
                      /\ \A m \in PageRecords : Place(m)[2] = 2
          /\ T >= 3 => pc = "handler" /\ exc = "TableCount" /\ PageRecords = {}

\* two tables, the page is parsed, and the record comes from the second
C1_Witness ==
    /\ Len(page) = 2
    /\ pc = "filter"
    /\ Len(matches) = 1
    /\ Place(matches[1]) = <<NumClubs, 2, 2>>

\* every consumed pair of rows has the four expected elements
PairsWellFormed(tbl) ==
    \A i \in 1..(Len(tbl) \div 2) :
        /\ tbl[2 * i - 1].cells # <<>>
        /\ tbl[2 * i].date # <<>>
        /\ tbl[2 * i].fixture # <<>>
        /\ tbl[2 * i].comp # <<>>

\* the table parse_details works on, for a page with one or two tables
Chosen == page[Len(page)]

\* C2: for a chosen table of R well-formed rows parse_details returns exactly
\* floor(R/2) records, the i-th built from rows 2i-1 (date) and 2i (details)
\* counted from 1, in document order; an odd last row gives no record and no
\* error.
C2_PairsInOrder ==
    (Len(page) \in {1, 2} /\ PairsWellFormed(Chosen) /\ ParseOver) =>
        /\ pc = "filter"
        /\ exc = "none"
        /\ Len(matches) = Len(Chosen) \div 2
        /\ \A i \in 1..Len(matches) :
             /\ matches[i].date = Chosen[2 * i - 1].cells[1].body
             /\ matches[i].hour = Chosen[2 * i].date[1].body
             /\ matches[i].teams = Chosen[2 * i].fixture[1].body
             /\ matches[i].competition = Chosen[2 * i].comp[1].body
             /\ Place(matches[i])[3] = 2 * i

\* three well-formed rows: one record, the third row is dropped silently
C2_Witness ==
    /\ Len(page) = 1
    /\ Len(Chosen) = 3
    /\ PairsWellFormed(Chosen)
    /\ pc = "filter"
    /\ exc = "none"
    /\ Len(matches) = 1

\* C10: when a pair of rows of the chosen table lacks an expected element,
\* parse_details raises for the page: no record of the page is returned, not
\* even those of the well-formed pairs before it, and the pair is not skipped.
C10_BadPairRaises ==
    (Len(page) \in {1, 2} /\ ~PairsWellFormed(Chosen) /\ ParseOver) =>
        /\ pc = "handler"
        /\ exc = "IndexError"
        /\ matches = <<>>

\* a well-formed pair was parsed, the next pair is bad: nothing is returned
C10_Witness ==
    /\ Len(page) = 1
    /\ Len(Chosen) = 4
    /\ ~PairsWellFormed(Chosen)
    /\ Len(res) = 1
    /\ exc = "IndexError"
    /\ pc = "handler"
    /\ matches = <<>>

-----------------------------------------------------------------------------
(* Properties of the filter and the sort (specification SpecFilter) *)

\* normalized date of a match minus now, in hours
HoursAhead(m) == Hours(parse_date_fr(m.date, now, sameDayRolls).dt) - Hours(now)

Retained == {matches[i] : i \in 1..Len(matches)}
Kept == {filtered[i] : i \in 1..Len(filtered)}

FilterDone == pc \in {"sort", "send", "exit"} /\ exc = "none"

\* C3: the filter keeps a match exactly when its normalized date minus now
\* is at most 7 days (168 hours): exactly 7 days is kept, 7 days and 1 hour
\* and 8 days are dropped, today and the past are kept.
C3_KeepWithinWeek ==
    FilterDone =>
        \A i \in 1..Len(matches) :
            /\ (matches[i] \in Kept) <=> (HoursAhead(matches[i]) <= 168)
            /\ HoursAhead(matches[i]) = 168 => matches[i] \in Kept
            /\ HoursAhead(matches[i]) \in {169, 192} => matches[i] \notin Kept
            /\ HoursAhead(matches[i]) <= 0 => matches[i] \in Kept

\* one match exactly 7 days ahead (kept), one 8 days ahead (dropped), one in
\* the past (kept)
C3_Witness ==
    /\ pc = "sort"
    /\ Len(matches) = 3
    /\ HoursAhead(matches[1]) = 168 /\ matches[1] \in Kept
    /\ HoursAhead(matches[2]) = 192 /\ matches[2] \notin Kept
    /\ HoursAhead(matches[3]) < 0 /\ matches[3] \in Kept

\* place of a match in the aggregate list (its encounter order)
Encounter(m) == CHOOSE i \in 1..Len(matches) : matches[i] = m

SortDone == pc \in {"send", "exit"} /\ exc = "none" /\ filtered # <<>>

\* C4: the retained matches are output in ascending order of normalized date,
\* matches with equal dates in their encounter order, and the output is a
\* permutation of exactly the retained matches.
C4_SortedStable ==
    SortDone =>
        /\ \A i, j \in 1..Len(filtered) :
             i < j =>
               /\ HoursAhead(filtered[i]) <= HoursAhead(filtered[j])
               /\ HoursAhead(filtered[i]) = HoursAhead(filtered[j])
                    => Encounter(filtered[i]) < Encounter(filtered[j])
        /\ Kept = {m \in Retained : HoursAhead(m) <= 168}
        /\ Len(filtered) = Cardinality(Kept)

\* the sort moved the last match to the front and kept two equal dates in
\* their encounter order
C4_Witness ==
    /\ SortDone
    /\ Len(filtered) = 3
    /\ Encounter(filtered[1]) = 3
    /\ HoursAhead(filtered[2]) = HoursAhead(filtered[3])
    /\ Encounter(filtered[2]) = 1
    /\ Encounter(filtered[3]) = 2

-----------------------------------------------------------------------------
(* Properties of the whole run (specification Spec) *)

\* the errors scrap_matches raises before any SMS is sent
ScrapErrors == {"RetryError", "TableCount", "IndexError", "UnparsedDate"}

SummaryCalls == {i \in 1..Len(sms) : sms[i].kind = "summary"}
FailedCalls == {i \in 1..Len(sms) : sms[i].outcome # "200"}

\* C6: every error of the run reaches the top level; without
\* --catch-exceptions the run aborts with it and sends no SMS; with
\* --catch-exceptions the run does not crash and an SMS describing the
\* failure is sent exactly when SMS sending is enabled.
C6_ErrorsAtTopLevel ==
    exc \in ScrapErrors =>
        /\ pc \in {"handler", "send", "exit"}
        /\ ~catchExc => /\ sms = <<>>
                        /\ pc = "exit" => exit = "crashed"
        /\ catchExc => /\ exit # "crashed"
                       /\ pc = "exit" => /\ exit = "ok"
                                         /\ (sms # <<>>) <=> ~noSms

\* C7: a failed SMS request (non-200 status or a request that raises), on the
\* summary path or on the error-report path, is never followed by another
\* send_sms call and never makes the run crash.
C7_SmsFailureContained ==
    FailedCalls # {} =>
        /\ Len(sms) = 1
        /\ exit # "crashed"
        /\ pc = "handler" => catchExc

\* C8 as stated: every run with SMS sending enabled that ends without error
\* has called send_sms exactly once, with the summary, and no run calls it
\* more than once.
C8_ExactlyOneSend ==
    /\ (pc = "exit" /\ ~noSms /\ exc = "none") =>
           Len(sms) = 1 /\ sms[1].kind = "summary"
    /\ Len(sms) <= 1

\* C8, amended: a run with SMS sending enabled whose scraping and filtering
\* end without error calls send_sms with the summary exactly once when a
\* match is retained and not at all when none is; the summary is one message
\* of one line per sorted retained match, sent only after the five pages are
\* fetched and parsed; the summary is never sent twice, and a second
\* send_sms call is only the --catch-exceptions report of a summary request
\* that raised.
C8_SummaryOnceIfUpcoming ==
    /\ (pc = "exit" /\ ~noSms /\ exc \in {"none", "SmsRequest"}) =>
           Cardinality(SummaryCalls) = IF filtered # <<>> THEN 1 ELSE 0
    /\ \A i \in SummaryCalls :
           /\ i = 1
           /\ ~noSms
           /\ club = NumClubs /\ status = "final" /\ ParseOver
           /\ sms[i].msg.prefix = "Prochains matchs:"
           /\ Len(sms[i].msg.text) = Len(filtered)
           /\ Len(filtered) >= 1
           /\ \A j \in 1..Len(filtered) :
                sms[i].msg.text[j] = <<filtered[j].date, filtered[j].hour,
                                       filtered[j].teams, filtered[j].competition>>
    /\ Len(sms) <= 2
    /\ Len(sms) = 2 => /\ sms[1].outcome = "raises"
                       /\ sms[2].kind = "error"
                       /\ catchExc

\* the summary of two retained matches of two clubs was sent, once
C8_Witness ==
    /\ pc = "exit"
    /\ exit = "ok"
    /\ ~noSms
    /\ exc = "none"
    /\ Len(sms) = 1
    /\ sms[1].kind = "summary"
    /\ sms[1].outcome = "200"
    /\ Len(filtered) = 2
    /\ Place(filtered[1])[1] # Place(filtered[2])[1]

====
